---- MODULE Spec2Model ----
(***************************************************************************)
(* A model of the YouTube RAG assistant: the video-id extraction and the   *)
(* transcript fetch of utils.py, the RAGSystem object of rag_system.py,    *)
(* the Streamlit session of app.py and the command-line host of main.py.   *)
(*                                                                         *)
(* Strings the code inspects character by character (URLs) are sequences   *)
(* of one-character strings.  Python's None is the empty sequence for a    *)
(* video id and the record NoRag for a RAGSystem reference.                *)
(***************************************************************************)
EXTENDS Integers, Sequences, FiniteSets

VARIABLES
    \* ---- app.py: st.session_state and what the page last showed
    rag_system,     \* st.session_state.rag_system
    indexed,        \* st.session_state.indexed
    video_id,       \* st.session_state.video_id
    chat_history,   \* st.session_state.chat_history
    status,         \* the message the last handler showed (st.error/st.success)
    attempt,        \* history: how the most recent indexing attempt ended
    rag_count,      \* history: number of RAGSystem objects constructed so far
    \* ---- app.py: the Advanced Settings widgets and the constructor call
    chunk_size, chunk_overlap, k_retrieval, temperature,
    rag_args,       \* arguments of the RAGSystem(...) call of the current run
    \* ---- utils.py: one activation of fetch_transcript
    fetch_pc, fetch_video, fetch_calls, fetch_result,
    \* ---- utils.py: one call of extract_video_id
    ex_pc, ex_url, ex_result,
    \* ---- main.py: the command-line host
    cli_pc, cli_video, cli_text, cli_rag, cli_out, uncaught,
    \* ---- rag_system.py: one RAGSystem object driven directly
    obj, obj_results, retrievals, llm_calls

webVars == <<rag_system, indexed, video_id, chat_history, status, attempt, rag_count>>
cfgVars == <<chunk_size, chunk_overlap, k_retrieval, temperature, rag_args>>
fetchVars == <<fetch_pc, fetch_video, fetch_calls, fetch_result>>
exVars == <<ex_pc, ex_url, ex_result>>
cliVars == <<cli_pc, cli_video, cli_text, cli_rag, cli_out, uncaught>>
objVars == <<obj, obj_results, retrievals, llm_calls>>
vars == <<webVars, cfgVars, fetchVars, exVars, cliVars, objVars>>

\* what the actions of one component leave alone: the other components
others_web == <<cfgVars, fetchVars, exVars, cliVars, objVars>>
others_cfg == <<webVars, fetchVars, exVars, cliVars, objVars>>
others_fetch == <<webVars, cfgVars, exVars, cliVars, objVars>>
others_ex == <<webVars, cfgVars, fetchVars, cliVars, objVars>>
others_cli == <<webVars, cfgVars, fetchVars, exVars, objVars>>
others_obj == <<webVars, cfgVars, fetchVars, exVars, cliVars>>

----------------------------------------------------------------------------
(* Bounds of the model *)

\* RAGSystem objects a session constructs before the model stops constructing
MaxRags == 2
\* turns the chat history holds before the model stops asking
MaxTurns == 2
\* lines the command-line host prints before the model stops asking
MaxCliOut == 5
\* calls made on the directly driven RAGSystem object
MaxCalls == 3
\* snippets in a fetched transcript
MaxSnippets == 2

----------------------------------------------------------------------------
(* utils.py: extract_video_id *)

\* the {11} of the pattern
IdLen == 11

Digits ==
    {"0", "1", "2", "3", "4", "5", "6", "7", "8", "9"}
UpperCase ==
    {"A", "B", "C", "D", "E", "F", "G", "H", "I", "J", "K", "L", "M",
     "N", "O", "P", "Q", "R", "S", "T", "U", "V", "W", "X", "Y", "Z"}
LowerCase ==
    {"a", "b", "c", "d", "e", "f", "g", "h", "i", "j", "k", "l", "m",
     "n", "o", "p", "q", "r", "s", "t", "u", "v", "w", "x", "y", "z"}

\* the character class [0-9A-Za-z_-]
IdChars == Digits \cup UpperCase \cup LowerCase \cup {"_", "-"}

\* Python's None for a video id
None == <<>>

\* [0-9A-Za-z_-]{11} matches at position j
TokenAt(url, j) ==
    /\ j >= 1
    /\ j + IdLen - 1 <= Len(url)
    /\ \A t \in 0 .. IdLen - 1 : url[j + t] \in IdChars

\* the pattern without its (?:[&?]|$) group
TerminatedAt_Dropped(url, j) == TRUE

\* (?:[&?]|$) matches at position j; Python's $ matches at the end of the
\* string and also just before a newline that is the string's last character
TerminatedAt(url, j) ==
    \/ j = Len(url) + 1
    \/ j <= Len(url) /\ url[j] \in {"&", "?"}
    \/ j = Len(url) /\ url[j] = "\n"

\* where group 1 starts when the pattern matches at position i, 0 when it
\* does not: (?:v=|/) then the token then the terminator
GroupStart(url, i) ==
    IF /\ i + 1 <= Len(url)
       /\ url[i] = "v"
       /\ url[i + 1] = "="
       /\ TokenAt(url, i + 2)
       /\ TerminatedAt(url, i + 2 + IdLen)
    THEN i + 2
    ELSE IF /\ url[i] = "/"
            /\ TokenAt(url, i + 1)
            /\ TerminatedAt(url, i + 1 + IdLen)
         THEN i + 1
         ELSE 0

\* re.search: the leftmost position where the pattern matches; group 1 of
\* that match, or None
extract_video_id(url) ==
    LET hits == {i \in 1 .. Len(url) : GroupStart(url, i) # 0}
    IN  IF hits = {}
        THEN None
        ELSE LET i == CHOOSE h \in hits : \A g \in hits : h <= g
                 s == GroupStart(url, i)
             IN  SubSeq(url, s, s + IdLen - 1)

----------------------------------------------------------------------------
(* URL pieces the hosts and the extraction are exercised with *)

WatchPrefix ==
    <<"h", "t", "t", "p", "s", ":", "/", "/", "w", "w", "w", ".", "y", "o", "u", "t", "u", "b", "e", ".", "c", "o", "m", "/", "w", "a", "t", "c", "h", "?", "v", "=">>
MobilePrefix ==
    <<"h", "t", "t", "p", "s", ":", "/", "/", "m", ".", "y", "o", "u", "t", "u", "b", "e", ".", "c", "o", "m", "/", "w", "a", "t", "c", "h", "?", "v", "=">>
BarePrefix ==
    <<"y", "o", "u", "t", "u", "b", "e", ".", "c", "o", "m", "/", "w", "a", "t", "c", "h", "?", "v", "=">>
ShortPrefix ==
    <<"h", "t", "t", "p", "s", ":", "/", "/", "y", "o", "u", "t", "u", ".", "b", "e", "/">>
EmbedPrefix ==
    <<"h", "t", "t", "p", "s", ":", "/", "/", "w", "w", "w", ".", "y", "o", "u", "t", "u", "b", "e", ".", "c", "o", "m", "/", "e", "m", "b", "e", "d", "/">>
IdRick ==
    <<"d", "Q", "w", "4", "w", "9", "W", "g", "X", "c", "Q">>
IdMixed ==
    <<"a", "-", "B", "_", "c", "0", "D", "1", "e", "2", "Z">>
IdDigits ==
    <<"0", "1", "2", "3", "4", "5", "6", "7", "8", "9", "0">>
SufTime ==
    <<"&", "t", "=", "4", "2", "s">>
SufShare ==
    <<"?", "s", "i", "=", "a", "b", "c">>
SufList ==
    <<"&", "l", "i", "s", "t", "=", "P", "L", "1", "&", "i", "n", "d", "e", "x", "=", "2">>
SufFeature ==
    <<"?", "f", "e", "a", "t", "u", "r", "e", "=", "s", "h", "a", "r", "e", "d", "&", "t", "=", "5">>
HomePage ==
    <<"h", "t", "t", "p", "s", ":", "/", "/", "w", "w", "w", ".", "y", "o", "u", "t", "u", "b", "e", ".", "c", "o", "m", "/">>
ChannelUrl ==
    <<"h", "t", "t", "p", "s", ":", "/", "/", "w", "w", "w", ".", "y", "o", "u", "t", "u", "b", "e", ".", "c", "o", "m", "/", "c", "/", "S", "o", "m", "e", "C", "h", "a", "n", "n", "e", "l">>
OtherSite ==
    <<"h", "t", "t", "p", "s", ":", "/", "/", "e", "x", "a", "m", "p", "l", "e", ".", "c", "o", "m", "/", "h", "e", "l", "l", "o", "_", "w", "o", "r", "l", "d">>
Fragment ==
    <<"#", "t", "=", "3", "0">>
PlainWords ==
    <<"n", "o", "t", " ", "a", " ", "u", "r", "l">>

\* the prefixes of the three documented URL shapes
ShapePrefixes == {WatchPrefix, MobilePrefix, BarePrefix, ShortPrefix, EmbedPrefix}
VideoIds == {IdRick, IdMixed, IdDigits}
\* nothing, or further query parameters after the id
QuerySuffixes == {<<>>, SufTime, SufShare, SufList, SufFeature}

\* what a user of either host types into the URL field
HostUrls ==
    {<<>>, PlainWords, HomePage,
     WatchPrefix \o IdRick, ShortPrefix \o IdMixed \o SufShare,
     EmbedPrefix \o IdDigits}
\* the ids extract_video_id finds in them; None for those it finds none in
HostVideoIds == {extract_video_id(url) : url \in HostUrls \ {<<>>}}

----------------------------------------------------------------------------
(* utils.py: fetch_transcript *)

\* snippet texts of the transcripts the source can return
Words == {"never", "gonna", "give"}
SnippetLists == UNION {[1 .. n -> Words] : n \in 0 .. MaxSnippets}

\* exceptions of the transcript source; all are subclasses of Exception
SourceErrors ==
    {"NoTranscriptFound", "TranscriptsDisabled", "VideoUnavailable", "RequestBlocked"}

Fetched(snips) == [ok |-> TRUE, snippets |-> snips, exc |-> "none"]
Failed(e) == [ok |-> FALSE, snippets |-> <<>>, exc |-> e]
\* everything one call ytt_api.fetch(video_id, languages=...) can do
SourceOutcomes == {Fetched(s) : s \in SnippetLists} \cup {Failed(e) : e \in SourceErrors}

LangEnglish == <<"en">>
LangFallback == <<"auto", "hi", "en">>

\* " ".join([snippet.text for snippet in fetched_transcript.snippets])
RECURSIVE JoinSpace(_)
JoinSpace(snips) ==
    IF Len(snips) = 0 THEN <<>>
    ELSE IF Len(snips) = 1 THEN <<snips[1]>>
    ELSE <<snips[1], " ">> \o JoinSpace(Tail(snips))

NoResult == [kind |-> "none", text |-> <<>>, exc |-> "none", cause |-> "none"]
Returned(t) == [kind |-> "return", text |-> t, exc |-> "none", cause |-> "none"]
Raised(e, c) == [kind |-> "raise", text |-> <<>>, exc |-> e, cause |-> c]
TryFallback == [kind |-> "fallback", text |-> <<>>, exc |-> "none", cause |-> "none"]

\* the first handler written as "except Exception"
AfterEnglish_CatchAll(o) ==
    IF o.ok THEN Returned(JoinSpace(o.snippets)) ELSE TryFallback

\* the first try block: the call with ["en"] returned or raised
AfterEnglish(o) ==
    IF o.ok THEN Returned(JoinSpace(o.snippets))
    ELSE IF o.exc = "NoTranscriptFound" THEN TryFallback
    ELSE Raised(o.exc, "none")

\* the nested handler re-raising what it caught
AfterFallback_Reraise(o) ==
    IF o.ok THEN Returned(JoinSpace(o.snippets)) ELSE Raised(o.exc, "none")

\* the nested try block: the call with ["auto", "hi", "en"] returned or raised
AfterFallback(o) ==
    IF o.ok THEN Returned(JoinSpace(o.snippets))
    ELSE Raised("RuntimeError", o.exc)

\* fetch_transcript as its callers see it: o1 and o2 are what the source does
\* on the first and on the second call (the second is used only if made)
fetch_transcript(o1, o2) ==
    LET r == AfterEnglish(o1)
    IN  IF r.kind = "fallback" THEN AfterFallback(o2) ELSE r

\* the transcripts the two hosts are run against, and every way their call
\* of fetch_transcript can end
HostSnippetLists == {<<>>, <<"never">>, <<"never", "gonna">>}
HostOutcomes == {Fetched(s) : s \in HostSnippetLists} \cup {Failed(e) : e \in SourceErrors}
FetchResults == {fetch_transcript(o1, o2) : o1, o2 \in HostOutcomes}

FetchBegin ==
    /\ fetch_pc = "idle"
    /\ \E v \in VideoIds : fetch_video' = v
    /\ fetch_pc' = "english"
    /\ fetch_calls' = <<>>
    /\ fetch_result' = NoResult
    /\ UNCHANGED others_fetch

FetchEnglish ==
    /\ fetch_pc = "english"
    /\ \E o \in SourceOutcomes :
         LET r == AfterEnglish(o)
         IN  /\ fetch_calls' = Append(fetch_calls, [languages |-> LangEnglish, outcome |-> o])
             /\ IF r.kind = "fallback"
                THEN fetch_pc' = "fallback" /\ UNCHANGED fetch_result
                ELSE fetch_pc' = "done" /\ fetch_result' = r
    /\ UNCHANGED fetch_video
    /\ UNCHANGED others_fetch

FetchFallback ==
    /\ fetch_pc = "fallback"
    /\ \E o \in SourceOutcomes :
         /\ fetch_calls' = Append(fetch_calls, [languages |-> LangFallback, outcome |-> o])
         /\ fetch_result' = AfterFallback(o)
    /\ fetch_pc' = "done"
    /\ UNCHANGED fetch_video
    /\ UNCHANGED others_fetch

\* the activation is over; the next call starts afresh
FetchEnd ==
    /\ fetch_pc = "done"
    /\ fetch_pc' = "idle"
    /\ fetch_video' = None
    /\ fetch_calls' = <<>>
    /\ fetch_result' = NoResult
    /\ UNCHANGED others_fetch

FetchNext ==
    \/ FetchBegin
    \/ FetchEnglish
    \/ FetchFallback
    \/ FetchEnd

----------------------------------------------------------------------------
(* rag_system.py: RAGSystem *)

NoStore == [built |-> FALSE, docs |-> <<>>]

\* Python's None for a RAGSystem reference
NoRag ==
    [id |-> 0, chunk_size |-> 0, chunk_overlap |-> 0, k |-> 0, temperature |-> 0,
     vector_store |-> NoStore, retriever |-> FALSE, chain |-> FALSE]

\* __init__: the object with identity id; temperature is in tenths
RAGSystem(args, id) ==
    [id |-> id, chunk_size |-> args.chunk_size, chunk_overlap |-> args.chunk_overlap,
     k |-> args.k, temperature |-> args.temperature,
     vector_store |-> NoStore, retriever |-> FALSE, chain |-> FALSE]

\* index_transcript running to completion: the store over the text's chunks,
\* the retriever and the chain are set, in that order
index_transcript(rag, text) ==
    [rag EXCEPT !.vector_store = [built |-> TRUE, docs |-> text],
                !.retriever = TRUE,
                !.chain = TRUE]

\* index_transcript building its chain before the vector store
index_transcript_raises_ChainFirst(rag) == [rag EXCEPT !.chain = TRUE]

\* index_transcript raising in the splitter or in FAISS.from_documents (the
\* embedding service): no attribute has been assigned yet
index_transcript_raises(rag) == rag

Questions == {"what", "why"}
Replies == {"yes", "no"}
\* what the retriever and the language model do during one chain.invoke
QueryEnvs == {"retrieval_fails", "generation_fails"} \cup Replies

NotIndexed == "RuntimeError: System not indexed yet"

\* query: the result, with the number of retrievals and of language-model
\* calls it made. An answer names the object whose index produced it.
query(rag, question, env) ==
    IF ~rag.chain
    THEN [raised |-> TRUE, exc |-> NotIndexed, answer |-> [by |-> 0, text |-> ""],
          retrieved |-> 0, generated |-> 0]
    ELSE IF env = "retrieval_fails"
    THEN [raised |-> TRUE, exc |-> "EmbeddingServiceError", answer |-> [by |-> 0, text |-> ""],
          retrieved |-> 1, generated |-> 0]
    ELSE IF env = "generation_fails"
    THEN [raised |-> TRUE, exc |-> "GenerationServiceError", answer |-> [by |-> 0, text |-> ""],
          retrieved |-> 1, generated |-> 1]
    ELSE [raised |-> FALSE, exc |-> "none", answer |-> [by |-> rag.id, text |-> env],
          retrieved |-> 1, generated |-> 1]

----------------------------------------------------------------------------
(* app.py: the Advanced Settings widgets and the RAGSystem arguments *)

\* the values st.slider(label, min, max, value, step) offers
SliderValues(lo, hi, step) == {lo + i * step : i \in 0 .. ((hi - lo) \div step)}

ChunkSizes == SliderValues(500, 2000, 100)
ChunkOverlaps == SliderValues(50, 500, 50)
RetrievalCounts == SliderValues(2, 10, 1)
\* temperature in tenths: 0.0 to 1.0 in steps of 0.1
Temperatures == SliderValues(0, 10, 1)

NoArgs == [chunk_size |-> 0, chunk_overlap |-> 0, k |-> 0, temperature |-> 0]

\* the keyword arguments of the RAGSystem(...) call of the web app
WebRagArgs ==
    [chunk_size |-> chunk_size, chunk_overlap |-> chunk_overlap,
     k |-> k_retrieval, temperature |-> temperature]

\* the arguments of the RAGSystem(...) call of the command-line host
CliRagArgs == [chunk_size |-> 1000, chunk_overlap |-> 200, k |-> 4, temperature |-> 2]

\* moving a slider reruns the script; that run calls no constructor
SlideChunkSize ==
    /\ \E v \in ChunkSizes \ {chunk_size} : chunk_size' = v
    /\ rag_args' = NoArgs
    /\ UNCHANGED <<chunk_overlap, k_retrieval, temperature>>
    /\ UNCHANGED others_cfg

SlideChunkOverlap ==
    /\ \E v \in ChunkOverlaps \ {chunk_overlap} : chunk_overlap' = v
    /\ rag_args' = NoArgs
    /\ UNCHANGED <<chunk_size, k_retrieval, temperature>>
    /\ UNCHANGED others_cfg

SlideRetrievalCount ==
    /\ \E v \in RetrievalCounts \ {k_retrieval} : k_retrieval' = v
    /\ rag_args' = NoArgs
    /\ UNCHANGED <<chunk_size, chunk_overlap, temperature>>
    /\ UNCHANGED others_cfg

SlideTemperature ==
    /\ \E v \in Temperatures \ {temperature} : temperature' = v
    /\ rag_args' = NoArgs
    /\ UNCHANGED <<chunk_size, chunk_overlap, k_retrieval>>
    /\ UNCHANGED others_cfg

\* Process Video reaching the constructor with the widgets as they stand
WebConstruct ==
    /\ rag_args' = WebRagArgs
    /\ UNCHANGED <<chunk_size, chunk_overlap, k_retrieval, temperature>>
    /\ UNCHANGED others_cfg

\* main() reaching the constructor
CliConstructArgs ==
    /\ rag_args' = CliRagArgs
    /\ UNCHANGED <<chunk_size, chunk_overlap, k_retrieval, temperature>>
    /\ UNCHANGED others_cfg

ConfigNext ==
    \/ SlideChunkSize
    \/ SlideChunkOverlap
    \/ SlideRetrievalCount
    \/ SlideTemperature
    \/ WebConstruct
    \/ CliConstructArgs

----------------------------------------------------------------------------
(* app.py: the session and its three handlers *)

NoAttempt == [outcome |-> "none", rag |-> 0, was_ready |-> FALSE, had_turns |-> 0]

\* the record of an indexing attempt: how it ended, the object it installed,
\* and whether the session was Ready, and with how many turns, when it began
Attempt(outcome, rag) ==
    [outcome |-> outcome, rag |-> rag, was_ready |-> indexed,
     had_turns |-> Len(chat_history)]

\* the assignment made as soon as the URL yields an id, before the fetch
SetVideoId(vid) == video_id' = vid

\* the three assignments without the history reset
OnIndexed_KeepHistory(rag) ==
    /\ rag_system' = rag
    /\ indexed' = TRUE
    /\ UNCHANGED chat_history

\* the three assignments that follow a completed index_transcript
OnIndexed(rag) ==
    /\ rag_system' = rag
    /\ indexed' = TRUE
    /\ chat_history' = <<>>

\* the except clause without the flag reset
OnProcessException_KeepFlag ==
    /\ status' = "process_error"
    /\ UNCHANGED <<indexed, rag_system, chat_history>>

\* the except clause of the Process Video handler
OnProcessException ==
    /\ status' = "process_error"
    /\ indexed' = FALSE
    /\ UNCHANGED <<rag_system, chat_history>>

\* the append that follows a query that returned
OnAnswer(question, answer) ==
    /\ chat_history' = Append(chat_history, <<question, answer>>)
    /\ status' = "answered"

\* the except clause dropping the conversation
OnQueryException_DropHistory ==
    /\ status' = "query_error"
    /\ chat_history' = <<>>

\* the except clause of the question handler
OnQueryException ==
    /\ status' = "query_error"
    /\ UNCHANGED chat_history

\* Process Video with the URL field empty
ProcessEmptyUrl ==
    /\ status' = "enter_url"
    /\ UNCHANGED <<rag_system, indexed, video_id, chat_history, attempt, rag_count>>
    /\ UNCHANGED others_web

\* Process Video with a URL that yields no id: st.error, then st.stop() ends
\* the run (its exception is not an Exception, so the except clause is skipped)
ProcessInvalidUrl ==
    /\ None \in HostVideoIds
    /\ status' = "invalid_url"
    /\ UNCHANGED <<rag_system, indexed, video_id, chat_history, attempt, rag_count>>
    /\ UNCHANGED others_web

\* Process Video failing in fetch_transcript
ProcessFetchFails ==
    /\ \E vid \in HostVideoIds, t \in FetchResults :
             /\ vid # None
             /\ t.kind = "raise"
             /\ SetVideoId(vid)
             /\ OnProcessException
             /\ attempt' = Attempt("fetch_failed", 0)
             /\ UNCHANGED rag_count
    /\ UNCHANGED others_web

\* Process Video failing in the RAGSystem constructor
ProcessConstructFails ==
    /\ \E vid \in HostVideoIds, t \in FetchResults :
             /\ vid # None
             /\ t.kind = "return"
             /\ SetVideoId(vid)
             /\ OnProcessException
             /\ attempt' = Attempt("construct_failed", 0)
             /\ UNCHANGED rag_count
    /\ UNCHANGED others_web

\* Process Video failing in index_transcript; the object built is dropped
ProcessIndexFails ==
    /\ \E vid \in HostVideoIds, t \in FetchResults :
             /\ vid # None
             /\ t.kind = "return"
             /\ rag_count < MaxRags
             /\ rag_count' = rag_count + 1
             /\ SetVideoId(vid)
             /\ OnProcessException
             /\ attempt' = Attempt("index_failed", 0)
    /\ UNCHANGED others_web

\* Process Video running to its end
ProcessSucceeds ==
    /\ \E vid \in HostVideoIds, t \in FetchResults :
             LET rag == RAGSystem(WebRagArgs, rag_count + 1)
             IN  /\ vid # None
                 /\ t.kind = "return"
                 /\ rag_count < MaxRags
                 /\ rag_count' = rag_count + 1
                 /\ SetVideoId(vid)
                 /\ OnIndexed(index_transcript(rag, t.text))
                 /\ status' = "indexed"
                 /\ attempt' = Attempt("ok", rag_count + 1)
    /\ UNCHANGED others_web

\* a question typed into the chat input, shown only while indexed, answered
AskAnswered ==
    /\ indexed
    /\ Len(chat_history) < MaxTurns
    /\ \E q \in Questions, env \in QueryEnvs :
         LET r == query(rag_system, q, env)
         IN  /\ ~r.raised
             /\ OnAnswer(q, r.answer)
    /\ UNCHANGED <<rag_system, indexed, video_id, attempt, rag_count>>
    /\ UNCHANGED others_web

\* a question whose query raises
AskFails ==
    /\ indexed
    /\ \E q \in Questions, env \in QueryEnvs :
         /\ query(rag_system, q, env).raised
         /\ OnQueryException
    /\ UNCHANGED <<rag_system, indexed, video_id, attempt, rag_count>>
    /\ UNCHANGED others_web

\* the Clear Conversation button, shown only while indexed; st.rerun()
ClearConversation ==
    /\ indexed
    /\ chat_history' = <<>>
    /\ status' = "rerun"
    /\ UNCHANGED <<rag_system, indexed, video_id, attempt, rag_count>>
    /\ UNCHANGED others_web

WebNext ==
    \/ ProcessEmptyUrl
    \/ ProcessInvalidUrl
    \/ ProcessFetchFails
    \/ ProcessConstructFails
    \/ ProcessIndexFails
    \/ ProcessSucceeds
    \/ AskAnswered
    \/ AskFails
    \/ ClearConversation

----------------------------------------------------------------------------
(* main.py: the command-line host, one action per step of main() *)

Output(line) == cli_out' = Append(cli_out, line)

\* OPENAI_API_KEY is not set
CliNoApiKey ==
    /\ cli_pc = "start"
    /\ Output("no_api_key")
    /\ cli_pc' = "exit"
    /\ UNCHANGED <<cli_video, cli_text, cli_rag, uncaught>>
    /\ UNCHANGED others_cli

\* the URL read yields no id
CliInvalidUrl ==
    /\ cli_pc = "start"
    /\ \E url \in HostUrls : extract_video_id(url) = None
    /\ Output("invalid_url")
    /\ cli_pc' = "exit"
    /\ UNCHANGED <<cli_video, cli_text, cli_rag, uncaught>>
    /\ UNCHANGED others_cli

CliValidUrl ==
    /\ cli_pc = "start"
    /\ \E url \in HostUrls :
         /\ extract_video_id(url) # None
         /\ cli_video' = extract_video_id(url)
    /\ Output("video_id")
    /\ cli_pc' = "fetch"
    /\ UNCHANGED <<cli_text, cli_rag, uncaught>>
    /\ UNCHANGED others_cli

\* the try block around fetch_transcript
CliFetched ==
    /\ cli_pc = "fetch"
    /\ \E t \in FetchResults :
         /\ t.kind = "return"
         /\ cli_text' = t.text
    /\ Output("preview")
    /\ cli_pc' = "construct"
    /\ UNCHANGED <<cli_video, cli_rag, uncaught>>
    /\ UNCHANGED others_cli

CliFetchFails ==
    /\ cli_pc = "fetch"
    /\ \E t \in FetchResults : t.kind = "raise"
    /\ Output("fetch_error")
    /\ cli_pc' = "exit"
    /\ UNCHANGED <<cli_video, cli_text, cli_rag, uncaught>>
    /\ UNCHANGED others_cli

\* rag = RAGSystem(...), outside any try block
CliConstructed ==
    /\ cli_pc = "construct"
    /\ cli_rag' = RAGSystem(CliRagArgs, 1)
    /\ cli_pc' = "index"
    /\ UNCHANGED <<cli_video, cli_text, cli_out, uncaught>>
    /\ UNCHANGED others_cli

CliConstructFails ==
    /\ cli_pc = "construct"
    /\ uncaught' = "construct"
    /\ cli_pc' = "crashed"
    /\ UNCHANGED <<cli_video, cli_text, cli_rag, cli_out>>
    /\ UNCHANGED others_cli

\* rag.index_transcript(transcript_text), outside any try block
CliIndexed ==
    /\ cli_pc = "index"
    /\ cli_rag' = index_transcript(cli_rag, cli_text)
    /\ Output("ready")
    /\ cli_pc' = "loop"
    /\ UNCHANGED <<cli_video, cli_text, uncaught>>
    /\ UNCHANGED others_cli

CliIndexFails ==
    /\ cli_pc = "index"
    /\ cli_rag' = index_transcript_raises(cli_rag)
    /\ uncaught' = "index"
    /\ cli_pc' = "crashed"
    /\ UNCHANGED <<cli_video, cli_text, cli_out>>
    /\ UNCHANGED others_cli

\* the loop: quit, exit or q
CliQuit ==
    /\ cli_pc = "loop"
    /\ Len(cli_out) < MaxCliOut
    /\ Output("goodbye")
    /\ cli_pc' = "exit"
    /\ UNCHANGED <<cli_video, cli_text, cli_rag, uncaught>>
    /\ UNCHANGED others_cli

\* the loop: a blank line, continue
CliBlank ==
    /\ cli_pc = "loop"
    /\ UNCHANGED cliVars
    /\ UNCHANGED others_cli

\* the loop: the try block around rag.query
CliAnswered ==
    /\ cli_pc = "loop"
    /\ Len(cli_out) < MaxCliOut
    /\ \E q \in Questions, env \in QueryEnvs :
         LET r == query(cli_rag, q, env)
         IN  ~r.raised /\ Output(r.answer.text)
    /\ UNCHANGED <<cli_pc, cli_video, cli_text, cli_rag, uncaught>>
    /\ UNCHANGED others_cli

CliQueryFails ==
    /\ cli_pc = "loop"
    /\ Len(cli_out) < MaxCliOut
    /\ \E q \in Questions, env \in QueryEnvs : query(cli_rag, q, env).raised
    /\ Output("query_error")
    /\ UNCHANGED <<cli_pc, cli_video, cli_text, cli_rag, uncaught>>
    /\ UNCHANGED others_cli

CliNext ==
    \/ CliNoApiKey
    \/ CliInvalidUrl
    \/ CliValidUrl
    \/ CliFetched
    \/ CliFetchFails
    \/ CliConstructed
    \/ CliConstructFails
    \/ CliIndexed
    \/ CliIndexFails
    \/ CliQuit
    \/ CliBlank
    \/ CliAnswered
    \/ CliQueryFails

----------------------------------------------------------------------------
(* rag_system.py: one RAGSystem object called directly *)

Texts == {JoinSpace(s) : s \in HostSnippetLists}

Call(op, raised, exc, retrieved, generated) ==
    [op |-> op, raised |-> raised, exc |-> exc,
     retrieved |-> retrieved, generated |-> generated]

ObjIndexed ==
    /\ Len(obj_results) < MaxCalls
    /\ \E text \in Texts : obj' = index_transcript(obj, text)
    /\ obj_results' = Append(obj_results, Call("index", FALSE, "none", 0, 0))
    /\ UNCHANGED <<retrievals, llm_calls>>
    /\ UNCHANGED others_obj

ObjIndexFails ==
    /\ Len(obj_results) < MaxCalls
    /\ obj' = index_transcript_raises(obj)
    /\ obj_results' = Append(obj_results, Call("index", TRUE, "EmbeddingServiceError", 0, 0))
    /\ UNCHANGED <<retrievals, llm_calls>>
    /\ UNCHANGED others_obj

ObjQuery ==
    /\ Len(obj_results) < MaxCalls
    /\ \E q \in Questions, env \in QueryEnvs :
         LET r == query(obj, q, env)
         IN  /\ obj_results' =
                    Append(obj_results, Call("query", r.raised, r.exc, r.retrieved, r.generated))
             /\ retrievals' = retrievals + r.retrieved
             /\ llm_calls' = llm_calls + r.generated
    /\ UNCHANGED obj
    /\ UNCHANGED others_obj

ObjNext ==
    \/ ObjIndexed
    \/ ObjIndexFails
    \/ ObjQuery

----------------------------------------------------------------------------
(* utils.py: extract_video_id called on the strings of ExtractInputs *)

\* URLs of the three shapes, with and without further query parameters
ShapeUrls == {p \o id \o s : p \in ShapePrefixes, id \in VideoIds, s \in QuerySuffixes}

\* strings that are no such URL: ids one character short or long, a fragment
\* or a path segment right after the id, line ends, other pages, no URL
OtherInputs ==
    {p \o SubSeq(id, 1, IdLen - 1) : p \in ShapePrefixes, id \in VideoIds}
    \cup {p \o id \o <<"x">> : p \in ShapePrefixes, id \in VideoIds}
    \cup {p \o id \o <<"x">> \o SufTime : p \in ShapePrefixes, id \in VideoIds}
    \cup {p \o id \o Fragment : p \in ShapePrefixes, id \in VideoIds}
    \cup {p \o id \o <<"/">> : p \in ShapePrefixes, id \in VideoIds}
    \cup {p \o id \o <<"\n">> : p \in ShapePrefixes, id \in VideoIds}
    \cup {p \o id \o <<"\n", "\n">> : p \in ShapePrefixes, id \in VideoIds}
    \cup {<<>>, PlainWords, HomePage, ChannelUrl, OtherSite}
    \cup VideoIds
    \cup ShapePrefixes

ExtractInputs == ShapeUrls \cup OtherInputs

ExtractCall ==
    /\ ex_pc = "idle"
    /\ \E url \in ExtractInputs :
         /\ ex_url' = url
         /\ ex_result' = extract_video_id(url)
    /\ ex_pc' = "returned"
    /\ UNCHANGED others_ex

ExtractReturn ==
    /\ ex_pc = "returned"
    /\ ex_pc' = "idle"
    /\ ex_url' = <<>>
    /\ ex_result' = None
    /\ UNCHANGED others_ex

ExtractNext ==
    \/ ExtractCall
    \/ ExtractReturn

----------------------------------------------------------------------------
(* The initial state and the specifications *)

Init ==
    /\ rag_system = NoRag
    /\ indexed = FALSE
    /\ video_id = None
    /\ chat_history = <<>>
    /\ status = "none"
    /\ attempt = NoAttempt
    /\ rag_count = 0
    /\ chunk_size = 1000
    /\ chunk_overlap = 200
    /\ k_retrieval = 4
    /\ temperature = 2
    /\ rag_args = NoArgs
    /\ fetch_pc = "idle"
    /\ fetch_video = None
    /\ fetch_calls = <<>>
    /\ fetch_result = NoResult
    /\ ex_pc = "idle"
    /\ ex_url = <<>>
    /\ ex_result = None
    /\ cli_pc = "start"
    /\ cli_video = None
    /\ cli_text = <<>>
    /\ cli_rag = NoRag
    /\ cli_out = <<>>
    /\ uncaught = "none"
    /\ obj = RAGSystem(CliRagArgs, 1)
    /\ obj_results = <<>>
    /\ retrievals = 0
    /\ llm_calls = 0

\* the web session
SpecWeb == Init /\ [][WebNext]_vars
\* the widgets and the constructor arguments
SpecConfig == Init /\ [][ConfigNext]_vars
\* fetch_transcript
SpecFetch == Init /\ [][FetchNext]_vars
\* extract_video_id
SpecExtract == Init /\ [][ExtractNext]_vars
\* the command-line host
SpecCli == Init /\ [][CliNext]_vars
\* a RAGSystem object
SpecRag == Init /\ [][ObjNext]_vars

\* all of them side by side; the components share no variable, so every
\* property below is checked under its component's own specification
Next == WebNext \/ ConfigNext \/ FetchNext \/ ExtractNext \/ CliNext \/ ObjNext
Spec == Init /\ [][Next]_vars

----------------------------------------------------------------------------
(* Properties of the web session, checked under SpecWeb *)

\* C1: every turn of the chat history was answered by the index the session
\* holds now, and a step that installs another index empties the history in
\* that same step.
C1_TurnsAnsweredByCurrentIndex ==
    /\ [](\A i \in 1 .. Len(chat_history) :
             /\ rag_system # NoRag
             /\ rag_system.chain
             /\ chat_history[i][2].by = rag_system.id)
    /\ [][rag_system' # rag_system => chat_history' = <<>> /\ indexed']_vars

\* a re-index of a Ready session that held turns, and a turn asked since
C1_Witness ==
    /\ attempt.outcome = "ok"
    /\ attempt.was_ready
    /\ attempt.had_turns > 0
    /\ Len(chat_history) > 0

\* C2: a Process Video attempt that fails leaves the index, the chat history,
\* the video id and the indexed flag as they were before the attempt.
C2_FailedAttemptChangesNothing ==
    [][status' = "process_error" =>
          UNCHANGED <<rag_system, chat_history, video_id, indexed>>]_vars

FailedOutcomes == {"fetch_failed", "construct_failed", "index_failed"}

\* C3: the session is Ready only if the most recent indexing attempt ran
\* index_transcript to completion and the session holds the object it
\* built; after an attempt that failed, and before any attempt, the session
\* is not Ready.
C3_ReadyOnlyAfterSuccessfulIndexing ==
    /\ indexed =>
          /\ attempt.outcome = "ok"
          /\ rag_system.id = attempt.rag
          /\ rag_system.id # 0
          /\ rag_system.vector_store.built
          /\ rag_system.retriever
          /\ rag_system.chain
    /\ attempt.outcome \in FailedOutcomes => ~indexed
    /\ attempt.outcome = "none" => ~indexed /\ rag_system = NoRag

\* an attempt that failed in index_transcript on a session that was Ready
C3_Witness ==
    /\ attempt.outcome = "index_failed"
    /\ attempt.was_ready
    /\ ~indexed
    /\ rag_system # NoRag

\* C10: a query that returns appends one turn at the end of the chat history
\* and keeps the earlier turns in place; Clear Conversation and a completed
\* indexing empty it; a query that raises changes neither the history, the
\* index, the video id nor the flag; nothing else changes the history.
C10_HistoryChangesOnlyThreeWays ==
    [][/\ status' = "answered" =>
             /\ Len(chat_history') = Len(chat_history) + 1
             /\ SubSeq(chat_history', 1, Len(chat_history)) = chat_history
             /\ chat_history'[Len(chat_history')][1] \in Questions
       /\ status' \in {"rerun", "indexed"} => chat_history' = <<>>
       /\ status' = "query_error" =>
             UNCHANGED <<chat_history, rag_system, video_id, indexed>>
       /\ status' \notin {"answered", "rerun", "indexed"} =>
             chat_history' = chat_history]_vars

\* a query that raised after two that returned, the turns in asking order
C10_Witness ==
    /\ status = "query_error"
    /\ Len(chat_history) = 2
    /\ chat_history[1][1] = "why"
    /\ chat_history[2][1] = "what"

----------------------------------------------------------------------------
(* Property of a RAGSystem object, checked under SpecRag *)

SuccessfulIndexBefore(i) ==
    \E j \in 1 .. i - 1 : obj_results[j].op = "index" /\ ~obj_results[j].raised

\* C4: a query made before any index_transcript call has run to completion
\* raises the not-indexed error and makes no retrieval and no language-model
\* call; while no such call has completed, none has been made at all.
C4_QueryBeforeIndexingFails ==
    /\ \A i \in 1 .. Len(obj_results) :
          obj_results[i].op = "query" /\ ~SuccessfulIndexBefore(i) =>
             /\ obj_results[i].raised
             /\ obj_results[i].exc = NotIndexed
             /\ obj_results[i].retrieved = 0
             /\ obj_results[i].generated = 0
    /\ ~SuccessfulIndexBefore(Len(obj_results) + 1) =>
          retrievals = 0 /\ llm_calls = 0

\* two queries refused, one before and one after an index_transcript that raised
C4_Witness ==
    /\ Len(obj_results) = 3
    /\ obj_results[1].op = "query" /\ obj_results[1].exc = NotIndexed
    /\ obj_results[2].op = "index" /\ obj_results[2].raised
    /\ obj_results[3].op = "query" /\ obj_results[3].exc = NotIndexed

----------------------------------------------------------------------------
(* Property of the command-line host, checked under SpecCli *)

\* C5: no failure of a transcript fetch, of an index build or of a query
\* escapes the host uncaught.
C5_NoFailureEscapes == uncaught \notin {"fetch", "index", "query"}

----------------------------------------------------------------------------
(* Properties of fetch_transcript, checked under SpecFetch *)

SomeCallFetched == \E i \in 1 .. Len(fetch_calls) : fetch_calls[i].outcome.ok
LastCall == fetch_calls[Len(fetch_calls)]

\* C6 as stated: whenever no attempt obtained a transcript the result is the
\* wrapping RuntimeError carrying the last failure, whichever attempt failed
\* and whatever it raised; otherwise the joined text is returned.
C6_EveryFailureWrapped ==
    fetch_pc = "done" =>
        IF SomeCallFetched
        THEN fetch_result = Returned(JoinSpace(LastCall.outcome.snippets))
        ELSE fetch_result = Raised("RuntimeError", LastCall.outcome.exc)

\* C6 as amended: the wrapping RuntimeError, carrying the cause, is raised
\* exactly when the fallback attempt was made and failed; when the first
\* attempt fails with anything but NoTranscriptFound that exception leaves
\* fetch_transcript as it is; otherwise the joined text is returned.
C6_FallbackFailureWrapped ==
    fetch_pc = "done" =>
        IF SomeCallFetched
        THEN fetch_result = Returned(JoinSpace(LastCall.outcome.snippets))
        ELSE IF Len(fetch_calls) = 2
        THEN fetch_result = Raised("RuntimeError", LastCall.outcome.exc)
        ELSE /\ Len(fetch_calls) = 1
             /\ LastCall.outcome.exc # "NoTranscriptFound"
             /\ fetch_result = Raised(LastCall.outcome.exc, "none")

\* both attempts failed, the second not for want of a transcript
C6_Witness ==
    /\ fetch_pc = "done"
    /\ Len(fetch_calls) = 2
    /\ fetch_result = Raised("RuntimeError", "VideoUnavailable")

\* C7: at most two calls; the first with ["en"]; the second with the
\* fallback list and only after the first raised NoTranscriptFound; a call
\* that obtains a transcript is the last; no language list is used twice;
\* a finished activation has made a call.
C7_OrderedAttempts ==
    /\ Len(fetch_calls) <= 2
    /\ Len(fetch_calls) >= 1 => fetch_calls[1].languages = LangEnglish
    /\ Len(fetch_calls) = 2 =>
          /\ fetch_calls[1].outcome = Failed("NoTranscriptFound")
          /\ fetch_calls[2].languages = LangFallback
    /\ \A i \in 1 .. Len(fetch_calls) :
          fetch_calls[i].outcome.ok => i = Len(fetch_calls)
    /\ \A i, j \in 1 .. Len(fetch_calls) :
          i # j => fetch_calls[i].languages # fetch_calls[j].languages
    /\ fetch_pc = "done" => Len(fetch_calls) >= 1

\* the fallback call made, and obtaining a transcript
C7_Witness ==
    /\ fetch_pc = "done"
    /\ Len(fetch_calls) = 2
    /\ fetch_calls[2].outcome.ok
    /\ fetch_result.kind = "return"

----------------------------------------------------------------------------
(* Property of the RAGSystem arguments, checked under SpecConfig *)

\* C8: whatever a host passes to RAGSystem, the chunk overlap is strictly
\* less than the chunk size and k is at least 1.
C8_OverlapBelowChunkSize ==
    rag_args # NoArgs =>
        /\ rag_args.chunk_overlap < rag_args.chunk_size
        /\ rag_args.k >= 1

----------------------------------------------------------------------------
(* Property of extract_video_id, checked under SpecExtract *)

\* a video token in a string: "v=" or "/" right before exactly IdLen
\* characters of the id alphabet, which are followed by "&", by "?" or by
\* the end of the string (a line end closing the string counts as its end)
ContainsToken(url) ==
    \E i \in 1 .. Len(url) :
        /\ \/ url[i] = "/"
           \/ i >= 2 /\ url[i - 1] = "v" /\ url[i] = "="
        /\ i + IdLen <= Len(url)
        /\ \A t \in 1 .. IdLen :
              url[i + t] \in Digits \cup UpperCase \cup LowerCase \cup {"_", "-"}
        /\ \/ i + IdLen = Len(url)
           \/ url[i + IdLen + 1] \in {"&", "?"}
           \/ i + IdLen + 1 = Len(url) /\ url[i + IdLen + 1] = "\n"

====
